---- MODULE Spec2Model ----
(***************************************************************************)
(* A model of s3_utils.core.S3Bucket (src/src/s3_utils/core.py): a thin    *)
(* wrapper over one remote bucket.  Strings (keys, paths, prefixes) are    *)
(* sequences of one-character strings, so that prefix tests, "ends with a  *)
(* slash", base names and parent directories are computed, not assumed.    *)
(* The remote service and the local filesystem are the environment: the    *)
(* remote answers every request either normally or with an injected fault. *)
(***************************************************************************)
EXTENDS Integers, Sequences, FiniteSets, TLC

VARIABLES
    objects,      \* keys held by the remote bucket
    localDirs,    \* directories of the local filesystem (besides ".")
    localFiles,   \* regular files of the local filesystem
    ret,          \* the outcome of the wrapper call made last
    lastOp,       \* history: per key, the last mutating call that targeted it
    upc,          \* upload_files: position of the calling thread
    toSubmit,     \* upload_files: files not yet submitted, in iterdir order
    queue,        \* executor: submitted work items not yet taken
    worker,       \* executor: per worker thread, what it runs
    future,       \* executor: per file, the state of its future
    attempts,     \* executor: per file, how many times its upload ran
    idleSem,      \* executor: the idle semaphore's count
    dpc,          \* download_file, step by step: position of the caller
    dcall         \* download_file, step by step: the call and what it did

vars == <<objects, localDirs, localFiles, ret, lastOp,
          upc, toSubmit, queue, worker, future, attempts, idleSem,
          dpc, dcall>>

seqVars  == <<objects, ret, lastOp>>
fsVars   == <<localDirs, localFiles>>
poolVars == <<upc, toSubmit, queue, worker, future, attempts, idleSem>>
raceVars == <<dpc, dcall>>

-----------------------------------------------------------------------------
(* Bounds *)

MaxBatch == 2      \* longest key list handed to delete_files
PageCap == 2       \* keys the remote returns in one listing page
NumFiles == 3      \* regular files in the directory given to upload_files
MaxWorkers == 2    \* threads of the executor

-----------------------------------------------------------------------------
(* Strings *)

None == <<"None">>

Keys == { <<"a">>, <<"b">>, <<"d", "/", "a">> }

Prefixes == { <<>>, <<"a">>, <<"d">>, <<"d", "/">> }

Ord(c) ==
    CASE c = "/" -> 47
      [] c = "a" -> 97
      [] c = "b" -> 98
      [] c = "d" -> 100
      [] c = "f" -> 102
      [] c = "s" -> 115
      [] c = "t" -> 116
      [] c = "x" -> 120
      [] OTHER -> 0

RECURSIVE StrLess(_, _)
StrLess(s, t) ==
    IF t = <<>> THEN FALSE
    ELSE IF s = <<>> THEN TRUE
    ELSE IF Ord(Head(s)) # Ord(Head(t)) THEN Ord(Head(s)) < Ord(Head(t))
    ELSE StrLess(Tail(s), Tail(t))

StartsWith(s, p) == Len(p) <= Len(s) /\ SubSeq(s, 1, Len(p)) = p

EndsWith(s, c) == Len(s) > 0 /\ s[Len(s)] = c

RECURSIVE SortKeys(_)
SortKeys(S) ==
    IF S = {} THEN <<>>
    ELSE LET m == CHOOSE k \in S : \A o \in S \ {k} : StrLess(k, o)
         IN  <<m>> \o SortKeys(S \ {m})

Take(s, n) == SubSeq(s, 1, IF Len(s) < n THEN Len(s) ELSE n)

Range(s) == { s[i] : i \in 1..Len(s) }

(* pathlib: Path(s) drops trailing slashes *)
RECURSIVE PurePath(_)
PurePath(s) ==
    IF Len(s) > 1 /\ EndsWith(s, "/") THEN PurePath(SubSeq(s, 1, Len(s) - 1))
    ELSE s

LastSlash(s) ==
    LET I == { i \in 1..Len(s) : s[i] = "/" }
    IN  IF I = {} THEN 0 ELSE CHOOSE i \in I : \A j \in I : j <= i

(* pathlib: Path(s).name *)
PathName(s) ==
    LET p == PurePath(s) IN SubSeq(p, LastSlash(p) + 1, Len(p))

(* pathlib: Path(s).parent; "." when s has a single component *)
PathParent(s) ==
    LET p == PurePath(s)
    IN  IF LastSlash(p) = 0 THEN <<".">> ELSE SubSeq(p, 1, LastSlash(p) - 1)

(* the directory and all its ancestors, as mkdir(parents=True) creates them *)
RECURSIVE Ancestors(_)
Ancestors(d) ==
    IF d = <<".">> THEN {} ELSE {d} \cup Ancestors(PathParent(d))

-----------------------------------------------------------------------------
(* Outcomes of a call: a return or a raised exception *)

(* how the remote may fail a request: the faults injected into the probe,  *)
(* and the ones injected into every other request                          *)
Faults == {"none", "403", "500", "network"}

RequestFaults == {"none", "500"}

Ok == [kind |-> "return", exc |-> "", code |-> ""]

Raise(e, c) == [kind |-> "raise", exc |-> e, code |-> c]

(* except ClientError: botocore's ClientError is not a BotoCoreError *)
IsClientError(o) == o.kind = "raise" /\ o.exc = "ClientError"

(* a remote request under a fault: the error the client library raises *)
FaultError(fault) ==
    IF fault = "network" THEN Raise("EndpointConnectionError", "")
    ELSE Raise("ClientError", fault)

(* dict.get(field, default) on a response *)
Get(response, field, default) ==
    IF field \in DOMAIN response THEN response[field] ELSE default

(* attribute lookup on an S3Bucket instance *)
Methods == {"file_exists", "list_objects_by_prefix", "upload_file",
            "upload_files", "download_file", "download_directory",
            "delete_file", "delete_files"}

HasAttr(name) == name \in Methods \cup {"client", "bucket"}

-----------------------------------------------------------------------------
(* The remote service *)

HeadObject(objs, k, fault) ==
    IF fault # "none" THEN FaultError(fault)
    ELSE IF k \in objs THEN Ok
    ELSE Raise("ClientError", "404")

(* one page: the first PageCap keys under the prefix, in key order;       *)
(* no Contents field when nothing matches                                  *)
ListObjectsV2(objs, prefix) ==
    LET all  == SortKeys({ k \in objs : StartsWith(k, prefix) })
        page == Take(all, PageCap)
    IN  IF page = <<>>
        THEN [IsTruncated |-> FALSE]
        ELSE [IsTruncated |-> Len(all) > Len(page),
              Contents |-> [i \in 1..Len(page) |-> [Key |-> page[i]]]]

ItemKeysOf(items) == { items[i].Key : i \in 1..Len(items) }

RECURSIVE Dedup(_)
Dedup(s) ==
    IF s = <<>> THEN <<>>
    ELSE LET r == Dedup(SubSeq(s, 1, Len(s) - 1))
         IN  IF s[Len(s)] \in Range(r) THEN r ELSE Append(r, s[Len(s)])

(* the batch delete's answer: the keys in errs are reported under Errors,  *)
(* a key repeated in the request either once or once per entry (each); no  *)
(* Errors field when none failed                                           *)
DeleteObjectsResponse(keys, errs, each) ==
    LET all == [i \in 1..Len(keys) |-> keys[i].Key]
        ks  == IF each THEN all ELSE Dedup(all)
        bad == SelectSeq(ks, LAMBDA k : k \in errs)
        gone == SelectSeq(ks, LAMBDA k : k \notin errs)
        del == [Deleted |-> [i \in 1..Len(gone) |-> [Key |-> gone[i]]]]
    IN  IF bad = <<>> THEN del
        ELSE [Deleted |-> del.Deleted,
              Errors |-> [i \in 1..Len(bad) |->
                            [Key |-> bad[i], Code |-> "AccessDenied"]]]

DeleteObjectsEffect(objs, keys, errs) ==
    objs \ ({ keys[i].Key : i \in 1..Len(keys) } \ errs)

-----------------------------------------------------------------------------
(* The wrapper's methods, as functions of the remote's state and answer *)

(* variant: every ClientError is read as "not found" *)
file_exists_any_client_error(objs, key_name, fault) ==
    LET probe == HeadObject(objs, key_name, fault)
    IN  IF probe.kind = "return" THEN Ok @@ [bool |-> TRUE]
        ELSE IF IsClientError(probe) THEN Ok @@ [bool |-> FALSE]
        ELSE probe @@ [bool |-> FALSE]

file_exists(objs, key_name, fault) ==
    LET probe == HeadObject(objs, key_name, fault)
    IN  IF probe.kind = "return" THEN Ok @@ [bool |-> TRUE]
        ELSE IF IsClientError(probe) /\ probe.code = "404"
             THEN Ok @@ [bool |-> FALSE]
        ELSE probe @@ [bool |-> FALSE]

list_objects_by_prefix(objs, prefix, fault) ==
    IF fault # "none" THEN FaultError(fault) @@ [items |-> <<>>]
    ELSE Ok @@ [items |-> Get(ListObjectsV2(objs, prefix), "Contents", <<>>)]

(* variant: the whole path is used as the key *)
UploadKey_whole_path(file_name, key_name) ==
    IF key_name = None THEN file_name ELSE key_name

(* the key upload_file writes: key_name, or the file's base name *)
UploadKey(file_name, key_name) ==
    IF key_name = None THEN PathName(file_name) ELSE key_name

(* a failed put leaves the bucket as it was: the remote's put is atomic *)
upload_file(objs, file_name, key_name, fault) ==
    IF fault # "none"
    THEN [out |-> Raise("S3UploadFailedError", fault), objects |-> objs]
    ELSE [out |-> Ok, objects |-> objs \cup {UploadKey(file_name, key_name)}]

delete_file(objs, key_name, fault) ==
    IF fault # "none" THEN [out |-> FaultError(fault), objects |-> objs]
    ELSE [out |-> Ok, objects |-> objs \ {key_name}]

NoSummary ==
    [deleted_objects |-> <<>>, deleted_count |-> 0,
     not_deleted_objects |-> <<>>, not_deleted_count |-> 0]

Summary(deleted_objects, not_deleted_objects) ==
    [deleted_objects |-> deleted_objects,
     deleted_count |-> Len(deleted_objects),
     not_deleted_objects |-> not_deleted_objects,
     not_deleted_count |-> Len(not_deleted_objects)]

(* variant: the membership test of the filter is inverted *)
delete_files_inverted_filter(objs, keys, errs, each, fault) ==
    IF fault # "none"
    THEN [out |-> FaultError(fault), objects |-> objs, summary |-> NoSummary]
    ELSE LET response == DeleteObjectsResponse(keys, errs, each)
             errors == Get(response, "Errors", <<>>)
             not_deleted_objects == [i \in 1..Len(errors) |-> errors[i].Key]
             deleted_objects ==
                 SelectSeq(keys, LAMBDA obj : obj.Key \in Range(not_deleted_objects))
         IN  [out |-> Ok,
              objects |-> DeleteObjectsEffect(objs, keys, errs),
              summary |-> Summary(deleted_objects, not_deleted_objects)]

(* variant: every input key is reported deleted *)
delete_files_no_filter(objs, keys, errs, each, fault) ==
    IF fault # "none"
    THEN [out |-> FaultError(fault), objects |-> objs, summary |-> NoSummary]
    ELSE LET response == DeleteObjectsResponse(keys, errs, each)
             errors == Get(response, "Errors", <<>>)
             not_deleted_objects == [i \in 1..Len(errors) |-> errors[i].Key]
         IN  [out |-> Ok,
              objects |-> DeleteObjectsEffect(objs, keys, errs),
              summary |-> Summary(keys, not_deleted_objects)]

delete_files(objs, keys, errs, each, fault) ==
    IF fault # "none"
    THEN [out |-> FaultError(fault), objects |-> objs, summary |-> NoSummary]
    ELSE LET response == DeleteObjectsResponse(keys, errs, each)
             errors == Get(response, "Errors", <<>>)
             not_deleted_objects == [i \in 1..Len(errors) |-> errors[i].Key]
             deleted_objects ==
                 SelectSeq(keys, LAMBDA obj : obj.Key \notin Range(not_deleted_objects))
         IN  [out |-> Ok,
              objects |-> DeleteObjectsEffect(objs, keys, errs),
              summary |-> Summary(deleted_objects, not_deleted_objects)]

-----------------------------------------------------------------------------
(* download_file, in the three steps it takes *)

(* variant: the existence check is skipped *)
DownloadProbe_no_check(objs, key_name, fault) ==
    LET e == file_exists(objs, key_name, fault)
    IN  IF e.kind = "raise" THEN [kind |-> e.kind, exc |-> e.exc, code |-> e.code]
        ELSE Ok

(* variant: the test of the existence check is inverted *)
DownloadProbe_inverted(objs, key_name, fault) ==
    LET e == file_exists(objs, key_name, fault)
    IN  IF e.kind = "raise" THEN [kind |-> e.kind, exc |-> e.exc, code |-> e.code]
        ELSE IF e.bool THEN Raise("S3KeyNotFoundError", "")
        ELSE Ok

(* lines 113-115: the check; Ok means the call goes on *)
DownloadProbe(objs, key_name, fault) ==
    LET e == file_exists(objs, key_name, fault)
    IN  IF e.kind = "raise" THEN [kind |-> e.kind, exc |-> e.exc, code |-> e.code]
        ELSE IF ~e.bool THEN Raise("S3KeyNotFoundError", "")
        ELSE Ok

(* lines 118-119 *)
LocalPath(key_name, local_path) ==
    IF local_path = None THEN PurePath(key_name) ELSE local_path

(* lines 122-124: mkdir(parents=True, exist_ok=True) of the parent *)
MkParents(dirs, files, local_path) ==
    LET parent_dir == PathParent(local_path)
    IN  IF parent_dir \in dirs \/ parent_dir = <<".">>
        THEN [out |-> Ok, dirs |-> dirs]
        ELSE IF parent_dir \in files
        THEN [out |-> Raise("FileExistsError", ""), dirs |-> dirs]
        ELSE IF Ancestors(parent_dir) \cap files # {}
        THEN [out |-> Raise("NotADirectoryError", ""), dirs |-> dirs]
        ELSE [out |-> Ok, dirs |-> dirs \cup Ancestors(parent_dir)]

(* line 126: the transfer writes the local file, or fails and writes none *)
Transfer(objs, dirs, files, key_name, local_path, fault) ==
    IF fault # "none" THEN [out |-> FaultError(fault), files |-> files]
    ELSE IF key_name \notin objs
    THEN [out |-> Raise("ClientError", "404"), files |-> files]
    ELSE IF local_path \in dirs
    THEN [out |-> Raise("IsADirectoryError", ""), files |-> files]
    ELSE [out |-> Ok, files |-> files \cup {local_path}]

(* the whole call, with nothing else acting on the bucket meanwhile *)
download_file(objs, dirs, files, key_name, local_path, fault, fault2) ==
    LET chk == DownloadProbe(objs, key_name, fault)
        lp  == LocalPath(key_name, local_path)
        mk  == MkParents(dirs, files, lp)
        tr  == Transfer(objs, mk.dirs, files, key_name, lp, fault2)
    IN  IF chk.kind = "raise"
        THEN [out |-> chk, dirs |-> dirs, files |-> files,
              requests |-> <<"head_object">>]
        ELSE IF mk.out.kind = "raise"
        THEN [out |-> mk.out, dirs |-> dirs, files |-> files,
              requests |-> <<"head_object">>]
        ELSE [out |-> tr.out, dirs |-> mk.dirs, files |-> tr.files,
              requests |-> <<"head_object", "download_file">>]

(* lines 136-137 *)
DirKey(dir_name) ==
    IF EndsWith(dir_name, "/") THEN dir_name ELSE Append(dir_name, "/")

(* lines 139-151: self.exists and self.download are looked up on the       *)
(* instance; a missing attribute raises AttributeError at the lookup        *)
download_directory(objs, dir_name, fault) ==
    LET d == DirKey(dir_name)
        e == file_exists(objs, d, fault)
        listed == ItemKeysOf(Get(ListObjectsV2(objs, d), "Contents", <<>>))
    IN  IF ~HasAttr("exists") THEN Raise("AttributeError", "")
        ELSE IF e.kind = "raise" THEN [kind |-> e.kind, exc |-> e.exc, code |-> e.code]
        ELSE IF ~e.bool THEN Raise("S3KeyNotFoundError", "")
        ELSE IF \E k \in listed : k # d /\ ~HasAttr("download")
        THEN Raise("AttributeError", "")
        ELSE Ok

-----------------------------------------------------------------------------
(* The record of the call made last *)

NoRet ==
    [op |-> "init", key |-> <<>>, path |-> <<>>, keys |-> <<>>,
     fault |-> "none", fault2 |-> "none", probe |-> Ok, errs |-> {},
     pre |-> {}, atProbe |-> FALSE, atTransfer |-> FALSE,
     kind |-> "return", exc |-> "", code |-> "", bool |-> FALSE,
     items |-> <<>>, summary |-> NoSummary, requests |-> <<>>]

OutFields(o) == [kind |-> o.kind, exc |-> o.exc, code |-> o.code]

UploadSources == { <<"a">>, <<"t", "/", "a">> }

BatchInputs ==
    UNION { [1..n -> { [Key |-> k] : k \in Keys }] : n \in 0..MaxBatch }

BatchKeys(keys) == { keys[i].Key : i \in 1..Len(keys) }

-----------------------------------------------------------------------------
(* Sequential use of one S3Bucket: each action is one whole call *)

(* a thread of the executor: where it is, and the file of the work item it holds *)
Thread(state, id) == [state |-> state, id |-> id]

IdlePool ==
    /\ upc = "idle"
    /\ toSubmit = <<>>
    /\ queue = <<>>
    /\ worker = [w \in 1..MaxWorkers |-> Thread("unspawned", 0)]
    /\ future = [i \in 1..NumFiles |-> "none"]
    /\ attempts = [i \in 1..NumFiles |-> 0]
    /\ idleSem = 0

IdleRace ==
    /\ dpc = "idle"
    /\ dcall = NoRet

Init ==
    /\ objects = {}
    /\ localDirs = {}
    /\ localFiles = {}
    /\ ret = NoRet
    /\ lastOp = [k \in Keys |-> "none"]
    /\ IdlePool
    /\ IdleRace

FileExists ==
    \E k \in Keys, f \in Faults :
        LET r == file_exists(objects, k, f)
        IN  /\ ret' = [op |-> "file_exists", key |-> k, fault |-> f,
                       probe |-> HeadObject(objects, k, f),
                       kind |-> r.kind, exc |-> r.exc, code |-> r.code,
                       bool |-> r.bool,
                       requests |-> <<"head_object">>] @@ NoRet
            /\ UNCHANGED <<objects, lastOp, fsVars, poolVars, raceVars>>

ListObjectsByPrefix ==
    \E p \in Prefixes, f \in RequestFaults :
        LET r == list_objects_by_prefix(objects, p, f)
        IN  /\ ret' = [op |-> "list_objects_by_prefix", key |-> p, fault |-> f,
                       kind |-> r.kind, exc |-> r.exc, code |-> r.code,
                       items |-> r.items,
                       requests |-> <<"list_objects_v2">>] @@ NoRet
            /\ UNCHANGED <<objects, lastOp, fsVars, poolVars, raceVars>>

(* S3Bucket defines no list_recursive: the lookup raises AttributeError *)
ListRecursive ==
    \E p \in Prefixes :
        /\ ret' = (IF HasAttr("list_recursive")
                   THEN [op |-> "list_recursive", key |-> p] @@ NoRet
                   ELSE [op |-> "list_recursive", key |-> p, kind |-> "raise",
                         exc |-> "AttributeError"] @@ NoRet)
        /\ UNCHANGED <<objects, lastOp, fsVars, poolVars, raceVars>>

UploadFile ==
    \E file \in UploadSources, k \in Keys \cup {None}, f \in RequestFaults :
        LET r == upload_file(objects, file, k, f)
            \* history: the key the call is documented to write
            target == IF k = None THEN PathName(file) ELSE k
        IN  /\ objects' = r.objects
            /\ ret' = ([op |-> "upload_file", key |-> k, path |-> file,
                        fault |-> f, requests |-> <<"upload_file">>]
                       @@ OutFields(r.out)) @@ NoRet
            /\ lastOp' = [lastOp EXCEPT ![target] =
                             IF f = "none" THEN "upload" ELSE "failed"]
            /\ UNCHANGED <<fsVars, poolVars, raceVars>>

DeleteFile ==
    \E k \in Keys, f \in RequestFaults :
        LET r == delete_file(objects, k, f)
        IN  /\ objects' = r.objects
            /\ ret' = ([op |-> "delete_file", key |-> k, fault |-> f,
                        requests |-> <<"delete_object">>]
                       @@ OutFields(r.out)) @@ NoRet
            /\ lastOp' = [lastOp EXCEPT ![k] =
                             IF f = "none" THEN "delete" ELSE "failed"]
            /\ UNCHANGED <<fsVars, poolVars, raceVars>>

DeleteFiles ==
    \E keys \in BatchInputs, f \in RequestFaults :
        \E errs \in SUBSET BatchKeys(keys), each \in BOOLEAN :
            LET r == delete_files(objects, keys, errs, each, f)
            IN  /\ f # "none" => errs = {}
                /\ each => \E i, j \in 1..Len(keys) :
                               i # j /\ keys[i] = keys[j] /\ keys[i].Key \in errs
                /\ objects' = r.objects
                /\ ret' = ([op |-> "delete_files", keys |-> keys, fault |-> f,
                            errs |-> errs, pre |-> objects,
                            summary |-> r.summary,
                            requests |-> <<"delete_objects">>]
                           @@ OutFields(r.out)) @@ NoRet
                /\ lastOp' = [k \in Keys |->
                                 IF k \notin BatchKeys(keys) THEN lastOp[k]
                                 ELSE IF f # "none" \/ k \in errs THEN "failed"
                                 ELSE "delete"]
                /\ UNCHANGED <<fsVars, poolVars, raceVars>>

Next ==
    \/ FileExists
    \/ ListObjectsByPrefix
    \/ ListRecursive
    \/ UploadFile
    \/ DeleteFile
    \/ DeleteFiles

Spec == Init /\ [][Next]_vars

-----------------------------------------------------------------------------
(* Properties of the sequential calls *)

NoRepeat(keys) == Cardinality(BatchKeys(keys)) = Len(keys)

DeletedKeys(summary) ==
    { summary.deleted_objects[i].Key : i \in 1..Len(summary.deleted_objects) }

\* C1: file_exists returns True when the head_object probe succeeds, returns
\* False when and only when the probe failed with error code "404", and for
\* every other failure of the probe raises that same error.
C1_FileExistsByProbe ==
    ret.op = "file_exists" =>
        /\ ret.probe.kind = "return" => (ret.kind = "return" /\ ret.bool)
        /\ (ret.kind = "return" /\ ~ret.bool)
               <=> (ret.probe.kind = "raise" /\ ret.probe.exc = "ClientError"
                    /\ ret.probe.code = "404")
        /\ (ret.probe.kind = "raise"
            /\ ~(ret.probe.exc = "ClientError" /\ ret.probe.code = "404"))
               => (ret.kind = "raise" /\ ret.exc = ret.probe.exc
                   /\ ret.code = ret.probe.code)

C1_Witness ==
    /\ ret.op = "file_exists"
    /\ ret.key \in objects
    /\ ret.kind = "raise" /\ ret.exc = "ClientError" /\ ret.code = "403"

\* C2: after any sequence of upload_file, delete_file and delete_files calls
\* that met no remote failure on key k, file_exists(k) is True exactly when the
\* last call that targeted k was an upload_file, and False when it was a
\* delete or when k was never uploaded.
C2_ExistsFollowsLastCall ==
    (ret.op = "file_exists" /\ ret.fault = "none") =>
        /\ ret.kind = "return"
        /\ lastOp[ret.key] = "upload" => ret.bool
        /\ lastOp[ret.key] \in {"none", "delete"} => ~ret.bool

C2_Witness ==
    /\ ret.op = "file_exists" /\ ret.fault = "none"
    /\ ret.kind = "return" /\ ~ret.bool
    /\ lastOp[ret.key] = "delete"
    /\ \E k \in Keys : lastOp[k] = "upload" /\ k \in objects

\* C3 as stated: delete_files on N distinct keys that all exist returns
\* deleted_count = N and not_deleted_count = 0, and afterwards none of them
\* exists.
C3_Original ==
    (/\ ret.op = "delete_files"
     /\ NoRepeat(ret.keys)
     /\ BatchKeys(ret.keys) \subseteq ret.pre)
    => /\ ret.kind = "return"
       /\ ret.summary.deleted_count = Len(ret.keys)
       /\ ret.summary.not_deleted_count = 0
       /\ ret.summary.not_deleted_objects = <<>>
       /\ BatchKeys(ret.keys) \cap objects = {}

\* C3, amended: delete_files on N distinct keys that all exist, when the
\* remote accepts the request and reports no key under Errors, returns
\* deleted_count = N and not_deleted_count = 0 with empty not_deleted_objects,
\* and afterwards none of the N keys exists.
C3_DeleteExistingNoErrors ==
    (/\ ret.op = "delete_files"
     /\ NoRepeat(ret.keys)
     /\ BatchKeys(ret.keys) \subseteq ret.pre
     /\ ret.fault = "none"
     /\ ret.errs = {})
    => /\ ret.kind = "return"
       /\ ret.summary.deleted_count = Len(ret.keys)
       /\ ret.summary.not_deleted_count = 0
       /\ ret.summary.not_deleted_objects = <<>>
       /\ BatchKeys(ret.keys) \cap objects = {}

C3_Witness ==
    /\ ret.op = "delete_files"
    /\ Len(ret.keys) = 2 /\ NoRepeat(ret.keys)
    /\ BatchKeys(ret.keys) \subseteq ret.pre
    /\ ret.fault = "none" /\ ret.errs = {}
    /\ ret.summary.deleted_count = 2

Partitions(summary, keys) ==
    /\ DeletedKeys(summary) \cap Range(summary.not_deleted_objects) = {}
    /\ DeletedKeys(summary) \cup Range(summary.not_deleted_objects) = BatchKeys(keys)
    /\ summary.deleted_count = Len(summary.deleted_objects)
    /\ summary.not_deleted_count = Len(summary.not_deleted_objects)

\* C4 as stated: for every key list and every answer of the remote,
\* delete_files returns, its two lists partition the input keys, the counts are
\* the lengths of the lists, and the counts add up to the number of input keys,
\* repeated keys included.
C4_Original ==
    (ret.op = "delete_files" /\ ret.fault = "none") =>
        /\ ret.kind = "return"
        /\ Partitions(ret.summary, ret.keys)
        /\ ret.summary.deleted_count + ret.summary.not_deleted_count = Len(ret.keys)

(* how many entries of the sequence s are k *)
Occurrences(s, k) == Cardinality({ i \in DOMAIN s : s[i] = k })

(* every key the remote reported under Errors was reported as many times as *)
(* the input list holds it                                                  *)
ReportedPerEntry(summary, keys) ==
    \A k \in Range(summary.not_deleted_objects) :
        Occurrences(summary.not_deleted_objects, k)
            = Occurrences([i \in 1..Len(keys) |-> keys[i].Key], k)

\* C4, amended: for every key list, the empty one and those with repeated keys
\* included, and every answer of the remote, delete_files returns, the keys of
\* deleted_objects and of not_deleted_objects are disjoint and together are
\* exactly the input keys, the counts are the lengths of the two lists, and the
\* counts add up to the number of input keys whenever every key reported under
\* Errors is reported as many times as it occurs in the input.
C4_PartitionAndCounts ==
    (ret.op = "delete_files" /\ ret.fault = "none") =>
        /\ ret.kind = "return"
        /\ Partitions(ret.summary, ret.keys)
        /\ ReportedPerEntry(ret.summary, ret.keys) =>
              ret.summary.deleted_count + ret.summary.not_deleted_count
                  = Len(ret.keys)

C4_Witness ==
    /\ ret.op = "delete_files" /\ ret.fault = "none"
    /\ Len(ret.keys) = 2 /\ ~NoRepeat(ret.keys)
    /\ ret.summary.deleted_count = 0
    /\ ret.summary.not_deleted_count = 2

UnderPrefix(objs, prefix) == { k \in objs : StartsWith(k, prefix) }

ItemKeys(items) == [i \in 1..Len(items) |-> items[i].Key]

\* C8 as stated: list_recursive returns every object under the prefix exactly
\* once, however many pages that takes, while list_objects_by_prefix issues one
\* request and returns at most one page.
C8_Original ==
    /\ (ret.op = "list_recursive" /\ ret.fault = "none") =>
          /\ ret.kind = "return"
          /\ Range(ItemKeys(ret.items)) = UnderPrefix(objects, ret.key)
          /\ Len(ret.items) = Cardinality(UnderPrefix(objects, ret.key))
    /\ (ret.op = "list_objects_by_prefix" /\ ret.fault = "none") =>
          /\ ret.kind = "return"
          /\ Len(ret.requests) = 1
          /\ Len(ret.items) <= PageCap

-----------------------------------------------------------------------------
(* Sequential downloads from a bucket nobody else changes *)

DownloadKeys == { <<"a">>, <<"d", "/">>, <<"d", "/", "a">> }

DownloadPaths == { None, <<"t", "/", "x">> }

DirNames == { <<"d">>, <<"d", "/">>, <<"a">> }

InitDownload ==
    /\ objects \in SUBSET DownloadKeys
    /\ localDirs = {}
    /\ localFiles = {}
    /\ ret = NoRet
    /\ lastOp = [k \in Keys |-> "none"]
    /\ IdlePool
    /\ IdleRace

DownloadFile ==
    \E k \in DownloadKeys, p \in DownloadPaths, f \in Faults, f2 \in RequestFaults :
        LET r == download_file(objects, localDirs, localFiles, k, p, f, f2)
        IN  /\ localDirs' = r.dirs
            /\ localFiles' = r.files
            /\ ret' = ([op |-> "download_file", key |-> k, path |-> p,
                        fault |-> f,
                        fault2 |-> IF Len(r.requests) = 2 THEN f2 ELSE "none",
                        probe |-> HeadObject(objects, k, f),
                        requests |-> r.requests]
                       @@ OutFields(r.out)) @@ NoRet
            /\ UNCHANGED <<objects, lastOp, poolVars, raceVars>>

DownloadDirectory ==
    \E d \in DirNames, f \in Faults :
        LET r == download_directory(objects, d, f)
        IN  /\ ret' = ([op |-> "download_directory", key |-> DirKey(d),
                        path |-> d, fault |-> f]
                       @@ OutFields(r)) @@ NoRet
            /\ UNCHANGED <<objects, lastOp, fsVars, poolVars, raceVars>>

NextDownload ==
    \/ DownloadFile
    \/ DownloadDirectory

SpecDownload == InitDownload /\ [][NextDownload]_vars

\* C7: download_file of a key absent from the bucket raises S3KeyNotFoundError,
\* requests no transfer and leaves the local directories and files as they
\* were; when the probe fails with another error than 404, that error is
\* raised and S3KeyNotFoundError is not.
C7_DownloadAbsentKey ==
    [][ret'.op = "download_file" =>
          /\ (ret'.probe.kind = "raise" /\ ret'.probe.code = "404") =>
                /\ ret'.key \notin objects
                /\ ret'.kind = "raise" /\ ret'.exc = "S3KeyNotFoundError"
                /\ ret'.requests = <<"head_object">>
                /\ localDirs' = localDirs /\ localFiles' = localFiles
          /\ (ret'.fault = "none" /\ ret'.key \notin objects) =>
                ret'.probe = Raise("ClientError", "404")
          /\ (ret'.probe.kind = "raise" /\ ret'.probe.code # "404") =>
                /\ ret'.kind = "raise"
                /\ ret'.exc = ret'.probe.exc /\ ret'.code = ret'.probe.code
                /\ ret'.exc # "S3KeyNotFoundError"
      ]_vars

C7_Witness ==
    /\ ret.op = "download_file"
    /\ ret.key \notin objects
    /\ ret.path = <<"t", "/", "x">>
    /\ ret.kind = "raise" /\ ret.exc = "S3KeyNotFoundError"
    /\ <<"t">> \notin localDirs
    /\ localFiles # {}

\* C9 as stated: download_directory raises S3KeyNotFoundError when the
\* directory key (the name with a trailing slash) does not exist, and otherwise
\* downloads every object under that key except the key itself to the target
\* joined with the object's key, and returns.
C9_Original ==
    (ret.op = "download_directory" /\ ret.fault = "none") =>
        IF ret.key \notin objects
        THEN ret.kind = "raise" /\ ret.exc = "S3KeyNotFoundError"
        ELSE /\ ret.kind = "return"
             /\ \A k \in objects :
                   (StartsWith(k, ret.key) /\ k # ret.key) => k \in localFiles

-----------------------------------------------------------------------------
(* download_file step by step, while another client changes the bucket *)

InitRace ==
    /\ objects = {}
    /\ localDirs = {}
    /\ localFiles = {}
    /\ ret = NoRet
    /\ lastOp = [k \in Keys |-> "none"]
    /\ IdlePool
    /\ IdleRace

RaceCall ==
    /\ dpc = "idle"
    /\ \E k \in DownloadKeys, p \in DownloadPaths :
          dcall' = [op |-> "download_file", key |-> k, path |-> p] @@ NoRet
    /\ dpc' = "probe"
    /\ UNCHANGED <<seqVars, fsVars, poolVars>>

RaceProbe ==
    /\ dpc = "probe"
    /\ \E f \in Faults :
          LET chk == DownloadProbe(objects, dcall.key, f)
          IN  /\ dcall' = [dcall EXCEPT !.fault = f,
                                        !.probe = HeadObject(objects, dcall.key, f),
                                        !.atProbe = dcall.key \in objects,
                                        !.requests = <<"head_object">>,
                                        !.kind = chk.kind,
                                        !.exc = chk.exc,
                                        !.code = chk.code]
              /\ dpc' = IF chk.kind = "raise" THEN "done" ELSE "mkdir"
    /\ UNCHANGED <<seqVars, fsVars, poolVars>>

RaceMkdir ==
    /\ dpc = "mkdir"
    /\ LET mk == MkParents(localDirs, localFiles, LocalPath(dcall.key, dcall.path))
       IN  /\ localDirs' = mk.dirs
           /\ dcall' = [dcall EXCEPT !.kind = mk.out.kind, !.exc = mk.out.exc,
                                     !.code = mk.out.code]
           /\ dpc' = IF mk.out.kind = "raise" THEN "done" ELSE "transfer"
    /\ UNCHANGED <<seqVars, localFiles, poolVars>>

RaceTransfer ==
    /\ dpc = "transfer"
    /\ \E f2 \in RequestFaults :
          LET tr == Transfer(objects, localDirs, localFiles, dcall.key,
                             LocalPath(dcall.key, dcall.path), f2)
          IN  /\ localFiles' = tr.files
              /\ dcall' = [dcall EXCEPT !.fault2 = f2,
                                        !.atTransfer = dcall.key \in objects,
                                        !.requests = Append(@, "download_file"),
                                        !.kind = tr.out.kind,
                                        !.exc = tr.out.exc,
                                        !.code = tr.out.code]
    /\ dpc' = "done"
    /\ UNCHANGED <<seqVars, localDirs, poolVars>>

(* another client of the same bucket *)
OtherDelete ==
    /\ \E k \in DownloadKeys : k \in objects /\ objects' = objects \ {k}
    /\ UNCHANGED <<ret, lastOp, fsVars, poolVars, raceVars>>

OtherPut ==
    /\ \E k \in DownloadKeys : k \notin objects /\ objects' = objects \cup {k}
    /\ UNCHANGED <<ret, lastOp, fsVars, poolVars, raceVars>>

NextRace ==
    \/ RaceCall
    \/ RaceProbe
    \/ RaceMkdir
    \/ RaceTransfer
    \/ OtherDelete
    \/ OtherPut

SpecRace == InitRace /\ [][NextRace]_vars

NoFault == dcall.fault = "none" /\ dcall.fault2 = "none"

\* C10 as stated: whatever another client deletes meanwhile, download_file
\* either completes the download or raises S3KeyNotFoundError, and it creates
\* no parent directory for a key that is gone at the transfer.
C10_Original ==
    (dpc = "done" /\ NoFault) =>
        /\ dcall.kind = "return" \/ dcall.exc = "S3KeyNotFoundError"
        /\ (Len(dcall.requests) = 2 /\ ~dcall.atTransfer) => localDirs = {}

\* C10, amended: with another client deleting the key meanwhile and no remote
\* fault, download_file ends in one of three ways: the download completes (the
\* key was there at the check and at the transfer); S3KeyNotFoundError, with no
\* directory created and no transfer requested (the key was absent at the
\* check); or, when the key is deleted between the check and the transfer, the
\* parent directories have been created and the transfer's own "404"
\* ClientError is raised, no file being written.
C10_CheckThenTransfer ==
    (dpc = "done" /\ NoFault) =>
        LET lp == LocalPath(dcall.key, dcall.path)
        IN  \/ /\ dcall.kind = "return"
               /\ dcall.atProbe /\ dcall.atTransfer
               /\ localFiles = {lp}
            \/ /\ dcall.kind = "raise" /\ dcall.exc = "S3KeyNotFoundError"
               /\ ~dcall.atProbe
               /\ dcall.requests = <<"head_object">>
               /\ localDirs = {} /\ localFiles = {}
            \/ /\ dcall.kind = "raise"
               /\ dcall.exc = "ClientError" /\ dcall.code = "404"
               /\ dcall.atProbe /\ ~dcall.atTransfer
               /\ dcall.requests = <<"head_object", "download_file">>
               /\ localDirs = Ancestors(PathParent(lp))
               /\ localFiles = {}

C10_Witness ==
    /\ dpc = "done" /\ NoFault
    /\ dcall.atProbe /\ ~dcall.atTransfer
    /\ dcall.exc = "ClientError" /\ dcall.code = "404"
    /\ localDirs # {}

-----------------------------------------------------------------------------
(* upload_files: the calling thread and the executor's worker threads *)

Directory == <<"s">>

FileName(i) == <<"f", ToString(i)>>

EntryPath(i) == Directory \o <<"/">> \o FileName(i)

(* the directory's entries: NumFiles regular files and one subdirectory *)
DirEntries ==
    { [path |-> EntryPath(i), is_file |-> TRUE, id |-> i]
        : i \in 1..NumFiles }
    \cup { [path |-> Directory \o <<"/", "t">>, is_file |-> FALSE, id |-> 0] }

(* lines 78-79: the regular files, in the order iterdir yields them *)
FileLists ==
    LET F == { e \in DirEntries : e.is_file }
    IN  { l \in [1..Cardinality(F) -> F] : \A i, j \in DOMAIN l : i # j => l[i] # l[j] }

InitPool ==
    /\ objects = {}
    /\ localDirs = {}
    /\ localFiles = {}
    /\ ret = NoRet
    /\ lastOp = [k \in Keys |-> "none"]
    /\ upc = "start"
    /\ toSubmit = <<>>
    /\ queue = <<>>
    /\ worker = [w \in 1..MaxWorkers |-> Thread("unspawned", 0)]
    /\ future = [i \in 1..NumFiles |-> "none"]
    /\ attempts = [i \in 1..NumFiles |-> 0]
    /\ idleSem = 0
    /\ IdleRace

ListDirectory ==
    /\ upc = "start"
    /\ toSubmit' \in FileLists
    /\ upc' = "submit"
    /\ UNCHANGED <<seqVars, fsVars, queue, worker, future, attempts, idleSem, raceVars>>

(* what shutdown puts on the work queue to wake the worker threads *)
Sentinel == [path |-> <<>>, is_file |-> FALSE, id |-> 0]

WorkItems(q) == SelectSeq(q, LAMBDA e : e # Sentinel)

(* executor.submit, first half: a pending future is made for the next file  *)
(* and its work item is put on the queue                                    *)
SubmitPut ==
    /\ upc = "submit"
    /\ toSubmit # <<>>
    /\ queue' = Append(queue, Head(toSubmit))
    /\ future' = [future EXCEPT ![Head(toSubmit).id] = "pending"]
    /\ toSubmit' = Tail(toSubmit)
    /\ upc' = "adjust"
    /\ UNCHANGED <<seqVars, fsVars, worker, attempts, idleSem, raceVars>>

(* executor.submit, second half: the idle semaphore is tried without        *)
(* waiting; when it is taken an idle thread will serve the item             *)
AdjustThreadCount ==
    /\ upc = "adjust"
    /\ idleSem' = IF idleSem > 0 THEN idleSem - 1 ELSE idleSem
    /\ upc' = IF idleSem > 0 THEN "submit" ELSE "spawn"
    /\ UNCHANGED <<seqVars, fsVars, toSubmit, queue, worker, future, attempts, raceVars>>

(* the semaphore was not available: a thread is started if fewer than       *)
(* max_workers were started                                                 *)
Spawned(wk) ==
    IF \E w \in DOMAIN wk : wk[w].state = "unspawned"
    THEN LET w == CHOOSE w \in DOMAIN wk :
                     /\ wk[w].state = "unspawned"
                     /\ \A v \in DOMAIN wk : wk[v].state = "unspawned" => w <= v
         IN  [wk EXCEPT ![w] = Thread("idle", 0)]
    ELSE wk

StartThread ==
    /\ upc = "spawn"
    /\ worker' = Spawned(worker)
    /\ upc' = "submit"
    /\ UNCHANGED <<seqVars, fsVars, toSubmit, queue, future, attempts, idleSem, raceVars>>

(* leaving the with block: shutdown(wait=True) puts the sentinel on the     *)
(* queue and then joins the threads                                         *)
Shutdown ==
    /\ upc = "submit"
    /\ toSubmit = <<>>
    /\ queue' = Append(queue, Sentinel)
    /\ upc' = "join"
    /\ UNCHANGED <<seqVars, fsVars, toSubmit, worker, future, attempts, idleSem,
                   raceVars>>

(* a worker thread's work_queue.get: it now holds the head of the queue,    *)
(* a work item whose future is still pending, or the sentinel               *)
WorkerGet(w) ==
    /\ worker[w].state = "idle"
    /\ queue # <<>>
    /\ worker' = [worker EXCEPT ![w] =
                     IF Head(queue) = Sentinel
                     THEN Thread("exiting", 0)
                     ELSE Thread("taken", Head(queue).id)]
    /\ queue' = Tail(queue)
    /\ UNCHANGED <<seqVars, fsVars, upc, toSubmit, future, attempts, idleSem, raceVars>>

(* work_item.run: the future is set running and upload_file is called *)
WorkerSetRunning(w) ==
    /\ worker[w].state = "taken"
    /\ worker' = [worker EXCEPT ![w] = Thread("running", worker[w].id)]
    /\ future' = [future EXCEPT ![worker[w].id] = "running"]
    /\ attempts' = [attempts EXCEPT ![worker[w].id] = @ + 1]
    /\ UNCHANGED <<seqVars, fsVars, upc, toSubmit, queue, idleSem, raceVars>>

(* upload_file in the worker thread: the remote stores the object, or       *)
(* fails; the thread has the answer, the future is not completed yet        *)
WorkerUpload(w) ==
    /\ worker[w].state = "running"
    /\ \E f \in RequestFaults :
          LET r == upload_file(objects, EntryPath(worker[w].id), None, f)
          IN  /\ objects' = r.objects
              /\ worker' = [worker EXCEPT ![w] =
                               Thread(IF r.out.kind = "raise" THEN "failed" ELSE "uploaded",
                                      worker[w].id)]
    /\ UNCHANGED <<ret, lastOp, fsVars, upc, toSubmit, queue, future, attempts, idleSem,
                   raceVars>>

(* variant: a failed upload cancels the work items still queued *)
QueueAfter_cancel_on_failure(q, failed) ==
    IF failed THEN SelectSeq(q, LAMBDA e : e = Sentinel) ELSE q

(* a work item's exception is kept in its future; the queue is untouched *)
QueueAfter(q, failed) == q

(* work_item.run, after upload_file: the result or the exception is stored  *)
(* in the future                                                            *)
WorkerSetResult(w) ==
    /\ worker[w].state \in {"uploaded", "failed"}
    /\ future' = [future EXCEPT ![worker[w].id] =
                     IF worker[w].state = "failed" THEN "exception" ELSE "finished"]
    /\ queue' = QueueAfter(queue, worker[w].state = "failed")
    /\ worker' = [worker EXCEPT ![w] = Thread("releasing", 0)]
    /\ UNCHANGED <<seqVars, fsVars, upc, toSubmit, attempts, idleSem, raceVars>>

(* the worker releases the idle semaphore and goes back to the queue *)
WorkerRelease(w) ==
    /\ worker[w].state = "releasing"
    /\ idleSem' = idleSem + 1
    /\ worker' = [worker EXCEPT ![w] = Thread("idle", 0)]
    /\ UNCHANGED <<seqVars, fsVars, upc, toSubmit, queue, future, attempts, raceVars>>

(* a worker that took the sentinel puts it back for the others and returns *)
WorkerExit(w) ==
    /\ worker[w].state = "exiting"
    /\ queue' = Append(queue, Sentinel)
    /\ worker' = [worker EXCEPT ![w] = Thread("exited", 0)]
    /\ UNCHANGED <<seqVars, fsVars, upc, toSubmit, future, attempts, idleSem, raceVars>>

(* variant: shutdown(wait=False), the threads are not joined *)
Joined_no_wait == TRUE

(* shutdown(wait=True) joins every thread the executor started *)
Joined == \A w \in 1..MaxWorkers : worker[w].state \in {"unspawned", "exited"}

Return ==
    /\ upc = "join"
    /\ Joined
    /\ upc' = "returned"
    /\ ret' = [op |-> "upload_files", path |-> Directory] @@ NoRet
    /\ UNCHANGED <<objects, lastOp, fsVars, toSubmit, queue, worker, future, attempts,
                   idleSem, raceVars>>

NextPool ==
    \/ ListDirectory
    \/ SubmitPut
    \/ AdjustThreadCount
    \/ StartThread
    \/ Shutdown
    \/ \E w \in 1..MaxWorkers : WorkerGet(w)
    \/ \E w \in 1..MaxWorkers : WorkerSetRunning(w)
    \/ \E w \in 1..MaxWorkers : WorkerUpload(w)
    \/ \E w \in 1..MaxWorkers : WorkerSetResult(w)
    \/ \E w \in 1..MaxWorkers : WorkerRelease(w)
    \/ \E w \in 1..MaxWorkers : WorkerExit(w)
    \/ Return

SpecPool == InitPool /\ [][NextPool]_vars

(* the threads that hold a work item *)
Running ==
    { w \in 1..MaxWorkers :
        worker[w].state \in {"taken", "running", "uploaded", "failed", "releasing"} }

\* C5: when upload_files returns and no upload failed, every one of the K
\* uploads has finished, none is pending or running, and all K base-name keys
\* are in the bucket, in every interleaving of the worker threads.
C5_AllUploadedAtReturn ==
    (upc = "returned" /\ \A i \in 1..NumFiles : future[i] # "exception") =>
        /\ \A i \in 1..NumFiles : future[i] = "finished" /\ FileName(i) \in objects
        /\ WorkItems(queue) = <<>>
        /\ Running = {}
        /\ Cardinality(objects) = NumFiles

C5_Witness ==
    /\ upc = "returned"
    /\ \A i \in 1..NumFiles : future[i] = "finished" /\ FileName(i) \in objects
    /\ \E w \in 1..MaxWorkers : worker[w].state = "exited"

\* C6: when some uploads of upload_files fail, every other submitted upload
\* still runs to completion and its key is in the bucket when upload_files
\* returns; no upload runs twice, and upload_files itself returns normally.
C6_FailuresAreIndependent ==
    upc = "returned" =>
        /\ \A i \in 1..NumFiles :
              /\ future[i] \in {"finished", "exception"}
              /\ attempts[i] = 1
              /\ future[i] = "finished" => FileName(i) \in objects
        /\ ret.op = "upload_files" /\ ret.kind = "return"

C6_Witness ==
    /\ upc = "returned"
    /\ \E i, j \in 1..NumFiles :
          /\ future[i] = "exception" /\ FileName(i) \notin objects
          /\ future[j] = "finished" /\ FileName(j) \in objects

====
